---- MODULE Spec2Model ----
\* simple_docker_runtime: the FastAPI application (simplerun/main.py) with its
\* process-wide shell session handle and plugin registry, and the Jupyter
\* kernel plugin (simplerun/plugins/jupyter/__init__.py).
\*
\* The application runs on one asyncio event loop: a handler runs without
\* interruption from one `await` that suspends to the next, so every action
\* below is one such stretch of code.  BashSession (simplerun.bash) and
\* JupyterKernel (plugins/jupyter/execute_server.py) are used by the code
\* but their bodies are not part of the modelled sources; they are modelled
\* from the specification's description (sections 4.1, 4.2, 5) and are the
\* definitions named BashInitOutcomes, NewSession, BashClose, BashExecute,
\* KernelInitOutcomes, KernelExecOutcomes, KernelMayReturn and CellOutputs.
\* VSCodePlugin is not part of them either: VsInitOutcomes allows whatever
\* its call sites in main.py allow.
\*
\* Three specifications share the state:
\*   Spec / FairSpec  startup, concurrent execute_action requests, resets and
\*                    shutdown, with file actions answered in the abstract;
\*   HelperSpec       one file action or one cell result followed through
\*                    its helper, with the path and the output in full;
\*   ApiSpec          startup and the plugin, VSCode and view-file endpoints.
EXTENDS Integers, Sequences, FiniteSets, TLC

\* ---------------------------------------------------------------- bounds
\* execute_action requests the clients send during one run of the server
MaxReqs == 2
\* BashSession objects constructed during one run (startup + resets)
MaxSessions == 2

\* ------------------------------------------------------ program constants
MinPort == 1024
MaxPort == 65535
DefaultPort == 8001

None == 0

Reqs == 1..MaxReqs
\* one JupyterPlugin at startup and at most one per execute_action request
MaxPlugins == MaxReqs + 1

\* os.environ as the process sees it: JUPYTER_PORT, LOCAL_RUNTIME_MODE == '1'
\* and whether SIMPLERUN_REPO_PATH is set.  It does not change while the
\* server runs.
Ports == {MinPort - 1, MinPort, MaxPort + 1}
Environments ==
    {[port |-> p, local |-> FALSE, repo |-> FALSE] : p \in Ports}
    \cup {[port |-> MaxPort, local |-> TRUE, repo |-> TRUE],
          [port |-> DefaultPort, local |-> TRUE, repo |-> FALSE]}

\* The action kinds event_from_dict can produce (simplerun.events.action);
\* "other" is any Action that execute_action has no branch for.
ActionTypes == {"CmdRunAction", "IPythonRunCellAction", "FileReadAction",
                "FileWriteAction", "FileEditAction", "other"}

\* A line read from the gateway's stdout, by what the readiness test looks
\* for in it: "" is end-of-file (readline returns b''), "noise" a line that
\* holds none of the markers, "port" a line holding str(kernel_gateway_port).
Lines == {"", "noise", "http", "port", "Gateway"}

VARIABLES
    env,              \* the environment the server was started in
    lifespan,         \* where the lifespan context manager stands
    bash_session,     \* main.bash_session: None or an index into sessions
    sessions,         \* every BashSession constructed, in order
    PLUGIN_INSTANCES, \* main.PLUGIN_INSTANCES: plugin name -> index / None
    plugins,          \* every JupyterPlugin constructed, in order
    req,              \* the execute_action requests
    vs,               \* every VSCodePlugin constructed, in order
    call              \* the last request answered by one of the handlers that
                      \* are modelled with their inputs and outputs in full
                      \* (file helpers, _run's observation, plugin endpoints)

vars == <<env, lifespan, bash_session, sessions, PLUGIN_INSTANCES, plugins, req,
          vs, call>>

PluginNames == {"jupyter", "vscode", "agent_skills"}

\* ------------------------------------------------------------ the plugin
\* a should_continue that returns False: the polling loop is never entered
should_continue_False == FALSE

\* def should_continue() -> bool: return True
should_continue == TRUE

\* the lower bound taken as exclusive
PortValid_Exclusive(port) == MinPort < port /\ port <= MaxPort

\* if not (1024 <= self.kernel_gateway_port <= 65535): raise ValueError
PortValid(port) == MinPort <= port /\ port <= MaxPort

\* a readiness test that end-of-file passes too ('' is in every string)
IsReadyLine_OrEof(line) ==
    line = "http" \/ line = "port" \/ line = "Gateway" \/ line = ""

\* if 'http' in line or str(self.kernel_gateway_port) in line or 'Gateway' in line
IsReadyLine(line) == line = "http" \/ line = "port" \/ line = "Gateway"

\* The part of JupyterPlugin.initialize before its first await: the port
\* check, the LocalRuntime check, and the launch of the gateway process.
InitBegin(e) ==
    IF ~PortValid(e.port) THEN "InvalidPort"
    ELSE IF e.local /\ ~e.repo THEN "RepoPathUnset"
    ELSE "launched"

\* `while should_continue() and self.gateway_process.stdout is not None`
\* (stdout is a pipe, so the second conjunct is always true): read another
\* line, or leave the loop and go on to the probe cell.
LoopHead == IF should_continue THEN "poll_read" ELSE "probe_kinit"

\* A JupyterPlugin() on which initialize has run up to its first await.
\*   owner   0: lifespan, r: the execute_action request r
\*   st      the await initialize stands at, or "ready" (initialize returned)
\*           or "failed" (initialize raised)
\*   gateway "none", or "running" once self.gateway_process was launched;
\*           "terminated" is what a close would make it, and nothing in the
\*           sources does
\*   probe   how the probe's _run ended: "none" (not yet), "ok", "raised"
\*   eof     the gateway's stdout has reached end-of-file
\*   marker  the polling loop was left through its `break`
\*   kernel  "absent": no self.kernel attribute; "created"; "initialized"
\*   interp  self.python_interpreter_path has been set
\*   err     why initialize raised
\*   sawMarker  a line holding 'http', 'Gateway' or the port number was read
\*   probes  how many times the probe cell was handed to kernel.execute
\*   trigger / regSeen   who constructed it: the action type of the request
\*           and the registry entry it saw (lifespan: "startup", None)
NewPlugin(owner, e, trigger, regSeen) ==
    LET b == InitBegin(e) IN
    [owner |-> owner,
     st |-> IF b = "launched" THEN LoopHead ELSE "failed",
     gateway |-> IF b = "launched" THEN "running" ELSE "none",
     probe |-> "none",
     eof |-> FALSE,
     marker |-> FALSE,
     sawMarker |-> FALSE,
     probes |-> 0,
     kernel |-> IF b = "launched" /\ LoopHead = "probe_kinit"
                THEN "created" ELSE "absent",
     interp |-> FALSE,
     err |-> IF b = "launched" THEN "none" ELSE b,
     trigger |-> trigger,
     regSeen |-> regSeen]

\* ------------------------------------------------- BashSession (from spec)
\* initialize() spawns the shell and reaches READY, or fails (SessionInitError)
BashInitOutcomes == {TRUE, FALSE}

\*   closeCalls  how many times close() was called on it
\*   badClose    close() was called on it when it was already closed or had
\*               never been initialized
NewSession(ok, by) ==
    [initialized |-> ok, closed |-> FALSE, by |-> by,
     closeCalls |-> 0, badClose |-> FALSE]

\* close() terminates the process; calling it again changes nothing
BashClose(ss, s) ==
    [ss EXCEPT ![s].closed = TRUE,
               ![s].closeCalls = @ + 1,
               ![s].badClose = @ \/ ss[s].closed \/ ~ss[s].initialized]

\* execute(action) is legal in READY only: SessionClosedError after close,
\* SessionNotReadyError before initialize; in READY it returns the command's
\* observation, or fails fast with SessionBusyError while an earlier command
\* that timed out is still running.
BashExecute(s) ==
    IF s.closed THEN {"SessionClosedError"}
    ELSE IF ~s.initialized THEN {"SessionNotReadyError"}
    ELSE {"observation", "SessionBusyError"}

\* ------------------------------------------------------------- requests
\*   pc     "idle": not sent yet; "auto_init": awaiting initialize of the
\*          plugin it constructed; "run_kinit": inside plugin.run, awaiting
\*          kernel.initialize(); "run_exec": inside plugin.run, awaiting
\*          kernel.execute(); "done": the response was sent
\*   gate   what the handle was when the request arrived: "absent" (None),
\*          "uninitialized", "open"; "none" before it arrived
\*   called the handlers the request was passed to
\*   onClosed  bash_session.execute was called on a session already closed
IdleReq == [pc |-> "idle", atype |-> "none", plugin |-> None, sess |-> None,
            status |-> 0, obs |-> "none", content |-> "none", fault |-> "none",
            sub |-> 0, res |-> 0,
            gate |-> "none", called |-> {}, onClosed |-> FALSE]

NoCall == [op |-> "none"]

Init ==
    /\ env \in Environments
    /\ lifespan = "bash_init"
    /\ bash_session = None
    /\ sessions = <<>>
    /\ PLUGIN_INSTANCES = [n \in PluginNames |-> None]
    /\ plugins = <<>>
    /\ req = [r \in Reqs |-> IdleReq]
    /\ vs = <<>>
    /\ call = NoCall

\* ------------------------------------------- JupyterKernel (from spec)
\* kernel.initialize(): the connection to the gateway is set up, or it fails
KernelInitOutcomes == {"ok", "raise"}

\* kernel.execute(code, timeout): the structured output of the cell ("ok"),
\* what was received when the per-call timeout expired ("partial"), or a
\* lower-level failure raised to the caller ("raise")
KernelExecOutcomes == {"ok", "partial", "raise"}

\* The kernel runs the cells it was sent one after the other, so a call gets
\* its complete output only when no earlier call on the same kernel is still
\* waiting; a timeout or a failure can end any waiting call.
KernelMayReturn(r, o) ==
    o = "ok" =>
      ~\E q \in Reqs : /\ q # r
                       /\ req[q].pc = "run_exec"
                       /\ req[q].plugin = req[r].plugin
                       /\ req[q].sub < req[r].sub

\* ------------------------------------------------ JupyterPlugin._run / run
\* _run up to its first await: the isinstance check, the lazy construction
\* of self.kernel, and the choice between kernel.initialize and
\* kernel.execute.
RunBegin(pl, atype) ==
    IF atype # "IPythonRunCellAction" THEN "raise"
    ELSE IF pl.kernel # "initialized" THEN "run_kinit"
    ELSE "run_exec"

\* run without its except clause: what _run raises, run raises
RunNoCatch(o) ==
    [raised |-> (o = "raise"),
     content |-> IF o = "ok" THEN "text" ELSE IF o = "partial" THEN "partial" ELSE "none"]

\* run: `try: return await self._run(action)` / `except Exception:` return an
\* IPythonRunCellObservation with content "Error executing code: ...".
\* o is how _run ended; raised tells whether run itself raises.
RunCatch(o) ==
    IF o = "raise"
    THEN [raised |-> FALSE, content |-> "Error executing code"]
    ELSE [raised |-> FALSE, content |-> IF o = "ok" THEN "text" ELSE "partial"]

\* a probe whose except clause logs and does not re-raise
ProbeResult_Swallow(o) == "return"

\* initialize's probe, lines 155-163: `try: _obs = await self._run(...)`
\* `except Exception: raise`.  o is how _run ended.
ProbeResult(o) == IF o = "raise" THEN "raise" ELSE "return"

\* -------------------------------------------------------- execute_action
NextSub == 1 + Cardinality({r \in Reqs : req[r].sub > 0})
NextRes == 1 + Cardinality({r \in Reqs : req[r].res > 0})

\* the response of a request that ends here
Respond(rq, status, obs, content) ==
    [rq EXCEPT !.pc = "done", !.status = status, !.obs = obs,
               !.content = content, !.res = NextRes]

\* lines 654-665: `observation = await plugin.run(action)`, and the handler's
\* own `except Exception` around it.  res is RunCatch's result.
CellResponse(rq, res) ==
    IF res.raised
    THEN Respond(rq, 200, "IPythonRunCellObservation", "Error executing Python code")
    ELSE Respond(rq, 200, "IPythonRunCellObservation", res.content)

\* the registry entry is not looked at: every code cell initializes a plugin
NeedsAutoInit_Always(plugin) == TRUE

\* lines 640-641: `if plugin is None or not isinstance(plugin, JupyterPlugin)`
\* (only JupyterPlugin instances are ever stored under "jupyter")
NeedsAutoInit(plugin) == plugin = None

\* `await plugin.run(action)` entered by request rq on plugin p, whose state
\* is pl: up to run's first await, or to its return.
EnterRun(rq, p, pl) ==
    LET b == RunBegin(pl, rq.atype)
        rq1 == [rq EXCEPT !.plugin = p, !.called = @ \cup {"plugin.run"}] IN
    IF b = "raise"
    THEN CellResponse([rq1 EXCEPT !.fault = "wrong_type"], RunCatch("raise"))
    ELSE IF b = "run_kinit"
    THEN [rq1 EXCEPT !.pc = "run_kinit"]
    ELSE [rq1 EXCEPT !.pc = "run_exec", !.sub = NextSub]

\* _run, lines 172-175: `if not hasattr(self, 'kernel'): self.kernel = ...`
WithKernel(pl) ==
    IF pl.kernel = "absent" THEN [pl EXCEPT !.kernel = "created"] ELSE pl

\* initialize returned: the caller registers the instance (line 65, line 647)
\* and, in execute_action, goes on to plugin.run(action) without an await.
\* probed: the probe's _run returned an observation, so line 159 has set
\* python_interpreter_path.
InitReturned(p, probed) ==
    LET pl == [plugins[p] EXCEPT !.st = "ready", !.interp = probed,
                                 !.probe = IF probed THEN "ok" ELSE "raised"]
        o == plugins[p].owner IN
    /\ plugins' = [plugins EXCEPT ![p] = pl]
    /\ PLUGIN_INSTANCES' = [PLUGIN_INSTANCES EXCEPT !["jupyter"] = p]
    /\ IF o = 0
       THEN lifespan' = "serving" /\ UNCHANGED req
       ELSE req' = [req EXCEPT ![o] = EnterRun(req[o], p, pl)] /\ UNCHANGED lifespan

\* initialize raised: lifespan prints and goes on (lines 67-68);
\* execute_action raises HTTPException(500) inside its own try block, whose
\* `except Exception` answers with a JSONResponse of status 500 (650-652,
\* 685-692).  The instance is dropped; its gateway process is left running.
InitRaised(p, err) ==
    LET o == plugins[p].owner IN
    /\ plugins' = [plugins EXCEPT ![p].st = "failed", ![p].err = err,
                                  ![p].probe = IF err = "ProbeFailed"
                                               THEN "raised" ELSE @]
    /\ UNCHANGED PLUGIN_INSTANCES
    /\ IF o = 0
       THEN lifespan' = "serving" /\ UNCHANGED req
       ELSE /\ req' = [req EXCEPT ![o] = Respond(req[o], 500, "JSONResponse",
                                                 "Failed to auto-initialize Jupyter")]
            /\ UNCHANGED lifespan

\* a lifespan whose except clause only prints
LifespanHandle_Keep(ok, new) == new

\* lifespan, lines 52-58: `bash_session = BashSession(...)`, and
\* `bash_session = None` when initialize raised
LifespanHandle(ok, new) == IF ok THEN new ELSE None

\* a lifespan that initializes the plugin whatever the handle is
StartJupyter_Always(handle) == TRUE

\* lifespan, line 61: `if bash_session:`
StartJupyter(handle) == handle # None

\* a reset_session whose except clause leaves the handle as it is
ResetHandle_Keep(ok, new) == new

\* reset_session, lines 177-181: `bash_session = BashSession(...)`, and
\* `bash_session = None` in the except clause when initialize raised
ResetHandle(ok, new) == IF ok THEN new ELSE None

\* lifespan, lines 52-58: construct and initialize the shell session
LifespanBashInit ==
    /\ lifespan = "bash_init"
    /\ \E ok \in BashInitOutcomes :
         /\ sessions' = Append(sessions, NewSession(ok, "lifespan"))
         /\ bash_session' = LifespanHandle(ok, Len(sessions) + 1)
         /\ lifespan' = IF StartJupyter(bash_session')
                        THEN "jupyter_init" ELSE "serving"
    /\ UNCHANGED <<vs, call, env, PLUGIN_INSTANCES, plugins, req>>

\* lifespan, lines 61-64: JupyterPlugin() and initialize to its first await
LifespanJupyterInit ==
    /\ lifespan = "jupyter_init"
    /\ LET pl == NewPlugin(0, env, "startup", None) IN
         /\ plugins' = Append(plugins, pl)
         /\ lifespan' = IF pl.st = "failed" THEN "serving" ELSE "jupyter_wait"
    /\ UNCHANGED <<vs, call, env, bash_session, sessions, PLUGIN_INSTANCES, req>>

\* initialize, lines 141-147: one readline of the gateway's stdout and the
\* readiness test; on a marker the loop breaks and the probe's _run starts
\* (to its first await, kernel.initialize()), otherwise asyncio.sleep(1).
PollRead(p) ==
    /\ p <= Len(plugins)
    /\ plugins[p].st = "poll_read"
    /\ \E line \in Lines :
         /\ plugins[p].eof => line = ""
         /\ plugins' = [plugins EXCEPT ![p] =
              LET saw == @.sawMarker \/ line \notin {"", "noise"} IN
              IF IsReadyLine(line)
              THEN [WithKernel(@) EXCEPT !.st = "probe_kinit", !.marker = TRUE,
                                         !.sawMarker = saw]
              ELSE [@ EXCEPT !.st = "poll_sleep", !.eof = (line = ""),
                             !.sawMarker = saw]]
    /\ UNCHANGED <<vs, call, env, lifespan, bash_session, sessions, PLUGIN_INSTANCES, req>>

\* initialize, lines 147-148 and back to the loop head at line 140
PollSleep(p) ==
    /\ p <= Len(plugins)
    /\ plugins[p].st = "poll_sleep"
    /\ plugins' = [plugins EXCEPT ![p] =
         IF LoopHead = "poll_read"
         THEN [@ EXCEPT !.st = "poll_read"]
         ELSE [WithKernel(@) EXCEPT !.st = "probe_kinit"]]
    /\ UNCHANGED <<vs, call, env, lifespan, bash_session, sessions, PLUGIN_INSTANCES, req>>

\* initialize's end, lines 155-163: o is how the probe's _run ended
ProbeEnd(p, o) ==
    IF ProbeResult(o) = "return"
    THEN InitReturned(p, o # "raise")
    ELSE InitRaised(p, "ProbeFailed")

\* the probe's `await self.kernel.initialize()` ends (line 178), and on
\* success kernel.execute is called (line 181)
ProbeKernelInit(p) ==
    /\ p <= Len(plugins)
    /\ plugins[p].st = "probe_kinit"
    /\ \E o \in KernelInitOutcomes :
         IF o = "ok"
         THEN /\ plugins' = [plugins EXCEPT ![p].st = "probe_exec",
                                            ![p].kernel = "initialized",
                                            ![p].probes = @ + 1]
              /\ UNCHANGED <<lifespan, PLUGIN_INSTANCES, req>>
         ELSE ProbeEnd(p, o)
    /\ UNCHANGED <<vs, call, env, bash_session, sessions>>

\* the probe's `await self.kernel.execute(...)` ends (line 181) and
\* initialize returns or raises (lines 159-163)
ProbeExec(p) ==
    /\ p <= Len(plugins)
    /\ plugins[p].st = "probe_exec"
    /\ \E o \in KernelExecOutcomes : ProbeEnd(p, o)
    /\ UNCHANGED <<vs, call, env, bash_session, sessions>>

\* what execute_action's two gates (lines 615-625) find in the handle
HandleState ==
    IF bash_session = None THEN "absent"
    ELSE IF ~sessions[bash_session].initialized THEN "uninitialized"
    ELSE "open"

\* an isinstance chain that passes every file action to read_file_action
FileHelper_AllRead(kind) == "read_file_action"

\* lines 667-680: the helper a file action is passed to
FileHelper(kind) ==
    CASE kind = "FileReadAction" -> "read_file_action"
      [] kind = "FileWriteAction" -> "write_file_action"
      [] kind = "FileEditAction" -> "edit_file_action"

\* the observation class the helper returns (lines 694-797)
FileObservation(kind) ==
    CASE kind = "FileReadAction" -> "FileReadObservation"
      [] kind = "FileWriteAction" -> "FileWriteObservation"
      [] kind = "FileEditAction" -> "FileEditObservation"

\* execute_action, lines 613-692, from the arrival of request r to its
\* response or to its first await.  kind is the action the request's
\* dictionary describes, or "malformed" when event_from_dict raises.
\* Requests are numbered in the order they arrive.
ExecuteAction(r) ==
    /\ lifespan = "serving"
    /\ req[r].pc = "idle"
    /\ r > 1 => req[r - 1].pc # "idle"
    /\ \E kind \in ActionTypes \cup {"malformed"} :
       LET rq == [req[r] EXCEPT !.atype = kind, !.gate = HandleState]
           reg == PLUGIN_INSTANCES["jupyter"] IN
       IF bash_session = None
       THEN /\ req' = [req EXCEPT ![r] = Respond(rq, 503, "HTTPException",
                                                 "Bash session not available")]
            /\ UNCHANGED <<plugins>>
       ELSE IF ~sessions[bash_session].initialized
       THEN /\ req' = [req EXCEPT ![r] = Respond(rq, 503, "HTTPException",
                                                 "Bash session not initialized")]
            /\ UNCHANGED <<plugins>>
       ELSE IF kind = "malformed"
       THEN /\ req' = [req EXCEPT ![r] = Respond(rq, 500, "JSONResponse", "error")]
            /\ UNCHANGED <<plugins>>
       ELSE IF kind = "CmdRunAction"
       THEN /\ \E o \in BashExecute(sessions[bash_session]) :
                 LET rq1 == [rq EXCEPT !.sess = bash_session, !.sub = NextSub,
                                       !.called = @ \cup {"bash_session.execute"},
                                       !.onClosed = sessions[bash_session].closed] IN
                 req' = [req EXCEPT ![r] =
                    IF o = "observation"
                    THEN Respond(rq1, 200, "CmdOutputObservation", "text")
                    ELSE Respond(rq1, 500, "JSONResponse", o)]
            /\ UNCHANGED <<plugins>>
       ELSE IF kind = "IPythonRunCellAction"
       THEN IF NeedsAutoInit(reg)
            THEN LET pl == NewPlugin(r, env, kind, reg)
                     p == Len(plugins) + 1 IN
                 /\ plugins' = Append(plugins, pl)
                 /\ req' = [req EXCEPT ![r] =
                      IF pl.st = "failed"
                      THEN Respond(rq, 500, "JSONResponse",
                                   "Failed to auto-initialize Jupyter")
                      ELSE [rq EXCEPT !.pc = "auto_init", !.plugin = p]]
            ELSE /\ plugins' = [plugins EXCEPT ![reg] = WithKernel(@)]
                 /\ req' = [req EXCEPT ![r] = EnterRun(rq, reg, WithKernel(plugins[reg]))]
       ELSE IF kind \in {"FileReadAction", "FileWriteAction", "FileEditAction"}
       THEN /\ req' = [req EXCEPT ![r] =
                 Respond([rq EXCEPT !.called = @ \cup {FileHelper(kind)}],
                         200, FileObservation(kind), "text")]
            /\ UNCHANGED <<plugins>>
       ELSE /\ req' = [req EXCEPT ![r] = Respond(rq, 500, "JSONResponse", "error")]
            /\ UNCHANGED <<plugins>>
    /\ UNCHANGED <<vs, call, env, lifespan, bash_session, sessions, PLUGIN_INSTANCES>>

\* plugin.run of request r resumes from its await: kernel.initialize() ended
\* (line 178) and kernel.execute is called, or kernel.execute() ended (line
\* 181) and the observation goes back through run and execute_action.
RunAwait(r) ==
    /\ req[r].pc \in {"run_kinit", "run_exec"}
    /\ LET p == req[r].plugin IN
       IF req[r].pc = "run_kinit"
       THEN \E o \in KernelInitOutcomes :
              IF o = "ok"
              THEN /\ plugins' = [plugins EXCEPT ![p].kernel = "initialized"]
                   /\ req' = [req EXCEPT ![r].pc = "run_exec", ![r].sub = NextSub]
              ELSE /\ req' = [req EXCEPT ![r] =
                        CellResponse([@ EXCEPT !.fault = "kernel_init"], RunCatch(o))]
                   /\ UNCHANGED plugins
       ELSE \E o \in KernelExecOutcomes :
              /\ KernelMayReturn(r, o)
              /\ req' = [req EXCEPT ![r] =
                   CellResponse([@ EXCEPT !.fault = IF o = "raise" THEN "kernel_execute"
                                                    ELSE "none"],
                                RunCatch(o))]
              /\ UNCHANGED plugins
    /\ UNCHANGED <<vs, call, env, lifespan, bash_session, sessions, PLUGIN_INSTANCES>>

\* reset_session, lines 168-188: close the current session, construct and
\* initialize a new one; the handle is None when that fails.
ResetSession ==
    /\ lifespan = "serving"
    /\ Len(sessions) < MaxSessions
    /\ \E ok \in BashInitOutcomes :
         LET closed == IF bash_session # None
                       THEN BashClose(sessions, bash_session) ELSE sessions IN
         /\ sessions' = Append(closed, NewSession(ok, "reset_session"))
         /\ bash_session' = ResetHandle(ok, Len(sessions) + 1)
    /\ UNCHANGED <<vs, call, env, lifespan, PLUGIN_INSTANCES, plugins, req>>

\* lifespan after the yield, lines 75-77.  The server stops taking requests
\* and lets the ones in flight finish before it runs the shutdown path.
LifespanShutdown ==
    /\ lifespan = "serving"
    /\ \A r \in Reqs : req[r].pc \in {"idle", "done"}
    /\ sessions' = IF bash_session # None
                   THEN BashClose(sessions, bash_session) ELSE sessions
    /\ lifespan' = "stopped"
    /\ UNCHANGED <<vs, call, env, bash_session, PLUGIN_INSTANCES, plugins, req>>

Next ==
    \/ LifespanBashInit
    \/ LifespanJupyterInit
    \/ \E p \in 1..MaxPlugins : PollRead(p)
    \/ \E p \in 1..MaxPlugins : PollSleep(p)
    \/ \E p \in 1..MaxPlugins : ProbeKernelInit(p)
    \/ \E p \in 1..MaxPlugins : ProbeExec(p)
    \/ \E r \in Reqs : ExecuteAction(r)
    \/ \E r \in Reqs : RunAwait(r)
    \/ ResetSession
    \/ LifespanShutdown

Spec == Init /\ [][Next]_vars

\* The event loop runs every task that is ready: a coroutine whose await has
\* completed is resumed.  Requests arriving, resets and the shutdown are the
\* environment's choice and get no fairness.
Fairness ==
    /\ WF_vars(LifespanBashInit)
    /\ WF_vars(LifespanJupyterInit)
    /\ \A p \in 1..MaxPlugins :
         /\ WF_vars(PollRead(p))
         /\ WF_vars(PollSleep(p))
         /\ WF_vars(ProbeKernelInit(p))
         /\ WF_vars(ProbeExec(p))
    /\ \A r \in Reqs : WF_vars(RunAwait(r))

FairSpec == Spec /\ Fairness

\* ------------------------------------------------------------- the claims
Plugins == 1..Len(plugins)
Sessions == 1..Len(sessions)

\* request r has handed its cell to plugin.run
InRun(r) == req[r].pc \in {"run_kinit", "run_exec"} \/ req[r].fault # "none"
                \/ (req[r].plugin # None /\ req[r].sub > 0)

\* C1 (helpers Polling, MarkerOrFailure): once initialize has launched the gateway, it eventually either reads
\* a readiness marker or ends with a startup failure; it does not poll
\* forever when the output holds no marker (end-of-file included).
Polling(p) ==
    IF p <= Len(plugins) THEN plugins[p].gateway = "running" ELSE FALSE

MarkerOrFailure(p) ==
    IF p <= Len(plugins)
    THEN plugins[p].marker \/ plugins[p].st = "failed"
    ELSE FALSE

C1_StartupBounded ==
    \A p \in 1..MaxPlugins : Polling(p) ~> MarkerOrFailure(p)

\* C2: a caller's code cell is handed only to a JupyterPlugin whose
\* initialize has returned: it left the polling loop on a readiness marker
\* and its probe cell gave an observation.
C2_ReadinessPrecedesUse ==
    \A r \in Reqs :
       InRun(r) =>
          /\ req[r].plugin \in Plugins
          /\ plugins[req[r].plugin].st = "ready"
          /\ plugins[req[r].plugin].marker
          /\ plugins[req[r].plugin].interp

\* a cell is in kernel.execute on the instance its own request auto-initialized,
\* while another request's cell runs on an instance it found registered
C2_Witness ==
    \E r, q \in Reqs :
       /\ req[r].pc = "run_exec" /\ plugins[req[r].plugin].owner = r
       /\ req[q].pc = "run_exec" /\ plugins[req[q].plugin].owner # q

\* C3: for one JupyterPlugin instance at most one run call is inside
\* kernel.execute at any time.
C3_SerializedExecution ==
    \A p \in 1..MaxPlugins :
       Cardinality({r \in Reqs : req[r].pc = "run_exec" /\ req[r].plugin = p}) <= 1

\* C4: at most one JupyterPlugin instance is ever initialized and at most
\* one gateway process is ever launched.
C4_AtMostOneKernelClient ==
    /\ Cardinality({p \in Plugins : plugins[p].gateway # "none"}) <= 1
    /\ Cardinality({p \in Plugins : plugins[p].st = "ready"}) <= 1
\* C5: run never raises: whatever fails below it, the request is answered
\* with one IPythonRunCellObservation built by run itself, whose content
\* describes the failure, and the registry still holds a Jupyter instance
\* and the instance the cell ran on is still READY.
C5_RunNeverPropagates ==
    \A r \in Reqs :
       /\ req[r].fault # "none" =>
            /\ req[r].pc = "done"
            /\ req[r].status = 200
            /\ req[r].obs = "IPythonRunCellObservation"
            /\ req[r].content = "Error executing code"
            /\ PLUGIN_INSTANCES["jupyter"] # None
            /\ plugins[req[r].plugin].st = "ready"
       /\ (req[r].pc = "done" /\ req[r].plugin # None /\ req[r].sub > 0) =>
            /\ req[r].obs = "IPythonRunCellObservation"
            /\ req[r].content # "Error executing Python code"

\* a cell's kernel.execute raised and was answered, and a later request ran
\* a cell on the same instance and got its output
C5_Witness ==
    \E r, q \in Reqs :
       /\ r < q
       /\ req[r].fault = "kernel_execute" /\ req[r].pc = "done"
       /\ req[q].plugin = req[r].plugin
       /\ req[q].pc = "done" /\ req[q].content = "text"
       /\ req[q].res > req[r].res

\* C6: with JUPYTER_PORT outside 1024..65535 every initialize fails with the
\* port error, launches no gateway and its instance is never registered;
\* with a port inside the range no initialize fails with the port error.
C6_PortValidation ==
    \A p \in Plugins :
       IF env.port < MinPort \/ env.port > MaxPort
       THEN /\ plugins[p].st = "failed"
            /\ plugins[p].err = "InvalidPort"
            /\ plugins[p].gateway = "none"
            /\ PLUGIN_INSTANCES["jupyter"] # p
       ELSE plugins[p].err # "InvalidPort"

\* both the startup and a request's auto-initialize were refused for the port
C6_Witness ==
    \E p, q \in Plugins :
       /\ plugins[p].owner = 0 /\ plugins[p].err = "InvalidPort"
       /\ plugins[q].owner # 0 /\ plugins[q].err = "InvalidPort"
       /\ req[plugins[q].owner].status = 500

\* C7: an instance whose probe cell raised ends FAILED: initialize raised to
\* its caller (a request is answered 500), the instance is not registered
\* and no request's cell is ever run on it.
C7_ProbeFailureFailsInit ==
    \A p \in Plugins :
       plugins[p].probe = "raised" =>
          /\ plugins[p].st = "failed"
          /\ plugins[p].err = "ProbeFailed"
          /\ PLUGIN_INSTANCES["jupyter"] # p
          /\ \A r \in Reqs : req[r].plugin = p =>
                /\ req[r].pc = "done" /\ req[r].status = 500
                /\ req[r].sub = 0 /\ req[r].fault = "none"

\* the probe of a request's auto-initialize raised in kernel.execute
C7_Witness ==
    \E p \in Plugins :
       /\ plugins[p].probe = "raised" /\ plugins[p].kernel = "initialized"
       /\ plugins[p].owner # 0
       /\ req[plugins[p].owner].status = 500

\* C8 as claimed: sessions and kernel plugins are constructed by lifespan or
\* by reset_session only.
C8_OnlyStartupOrReset ==
    /\ \A s \in Sessions : sessions[s].by \in {"lifespan", "reset_session"}
    /\ \A p \in Plugins : plugins[p].trigger \in {"startup", "reset_session"}

\* C8 amended: a shell session is constructed by lifespan (once) or by
\* reset_session only; a kernel plugin is constructed by lifespan (once) or
\* by execute_action handling an IPythonRunCellAction that found no Jupyter
\* instance registered, and by nothing else.
C8_CreationPoints ==
    /\ \A s \in Sessions : sessions[s].by \in {"lifespan", "reset_session"}
    /\ Cardinality({s \in Sessions : sessions[s].by = "lifespan"}) <= 1
    /\ Cardinality({p \in Plugins : plugins[p].owner = 0}) <= 1
    /\ \A p \in Plugins :
          \/ plugins[p].owner = 0 /\ plugins[p].trigger = "startup"
          \/ /\ plugins[p].owner # 0
             /\ plugins[p].trigger = "IPythonRunCellAction"
             /\ plugins[p].regSeen = None

\* a request auto-initialized a plugin although startup had launched one
\* (whose probe failed), after the shell session had been reset
C8_Witness ==
    \E p, q \in Plugins :
       /\ plugins[p].owner = 0 /\ plugins[p].gateway = "running"
       /\ plugins[q].owner # 0 /\ plugins[q].st = "ready"
       /\ Len(sessions) > 1

\* C9: once the shutdown path has run, every shell session that was
\* initialized is closed and every gateway process that was launched is
\* terminated.
C9_AllClosedAtShutdown ==
    lifespan = "stopped" =>
       /\ \A s \in Sessions : sessions[s].initialized => sessions[s].closed
       /\ \A p \in Plugins : plugins[p].gateway # "running"

\* C10: of two requests handed to the same shell session or the same kernel
\* plugin, the one handed over first gets its result first.
SameInstance(r, q) ==
    \/ req[r].sess # None /\ req[r].sess = req[q].sess
    \/ req[r].plugin # None /\ req[r].plugin = req[q].plugin

C10_ResultsInSubmissionOrder ==
    \A r, q \in Reqs :
       (/\ req[r].sub > 0 /\ req[q].sub > 0
        /\ SameInstance(r, q)
        /\ req[r].sub < req[q].sub
        /\ req[q].pc = "done")
          => (req[r].pc = "done" /\ req[r].res < req[q].res)

\* the handler and the observation class of an action type (lines 628-680)
SupportedTypes == ActionTypes \ {"other"}

HandlerOf(atype) ==
    CASE atype = "CmdRunAction" -> "bash_session.execute"
      [] atype = "IPythonRunCellAction" -> "plugin.run"
      [] atype = "FileReadAction" -> "read_file_action"
      [] atype = "FileWriteAction" -> "write_file_action"
      [] atype = "FileEditAction" -> "edit_file_action"

ObservationOf(atype) ==
    CASE atype = "CmdRunAction" -> "CmdOutputObservation"
      [] atype = "IPythonRunCellAction" -> "IPythonRunCellObservation"
      [] atype = "FileReadAction" -> "FileReadObservation"
      [] atype = "FileWriteAction" -> "FileWriteObservation"
      [] atype = "FileEditAction" -> "FileEditObservation"

\* request r is an action of a supported type that got past the session gate
Routed(r) == req[r].gate = "open" /\ req[r].atype \in SupportedTypes

\* C11 as claimed: every action of a supported type is passed to exactly one
\* handler, the one of its type, and is answered with exactly one
\* observation.
C11_OneHandlerOneObservation ==
    \A r \in Reqs :
       /\ Routed(r) => req[r].called \subseteq {HandlerOf(req[r].atype)}
       /\ (Routed(r) /\ req[r].pc = "done") =>
             /\ req[r].called = {HandlerOf(req[r].atype)}
             /\ req[r].status = 200
             /\ req[r].obs = ObservationOf(req[r].atype)

\* C11 amended: an action of a supported type is never passed to a handler
\* other than the one of its type (a command never reaches plugin.run, a
\* code cell never reaches bash_session.execute), and it is answered with
\* exactly one observation of that handler, except that it is answered with
\* status 500 and no observation when the shell's execute raises or when the
\* kernel plugin had to be auto-initialized and its initialize failed; in
\* the latter case no handler is invoked at all.
C11_RoutedByType ==
    \A r \in Reqs :
       /\ Routed(r) => req[r].called \subseteq {HandlerOf(req[r].atype)}
       /\ (Routed(r) /\ req[r].pc = "done" /\ req[r].status = 200) =>
             /\ req[r].called = {HandlerOf(req[r].atype)}
             /\ req[r].obs = ObservationOf(req[r].atype)
       /\ (Routed(r) /\ req[r].pc = "done" /\ req[r].status # 200) =>
             /\ req[r].status = 500 /\ req[r].obs = "JSONResponse"
             /\ \/ /\ req[r].atype = "CmdRunAction"
                   /\ req[r].called = {"bash_session.execute"}
                \/ /\ req[r].atype = "IPythonRunCellAction"
                   /\ req[r].called = {}
                   /\ req[r].content = "Failed to auto-initialize Jupyter"

\* a command was answered by the shell and a code cell by the kernel plugin,
\* on a server where both are available
C11_Witness ==
    \E r, q \in Reqs :
       /\ req[r].pc = "done" /\ req[r].atype = "CmdRunAction"
       /\ req[r].obs = "CmdOutputObservation"
       /\ req[q].pc = "done" /\ req[q].atype = "IPythonRunCellAction"
       /\ req[q].obs = "IPythonRunCellObservation" /\ req[q].content = "text"

C18_HandleNeverClosed ==
    bash_session # None => ~sessions[bash_session].closed

\* C18 amended: until the shutdown path has run, the handle is None or an
\* initialized session on which close has not been called (the shutdown path
\* closes the session and leaves the handle pointing at it, when no request
\* is served any more); execute is never called on a closed session; close
\* is called at most once on any session; and a request that arrives while
\* the handle is None, as it is after a failed reset, is answered 503.
C18_HandleOpenWhileServing ==
    /\ (lifespan # "stopped" /\ bash_session # None) =>
          /\ bash_session \in Sessions
          /\ sessions[bash_session].initialized
          /\ ~sessions[bash_session].closed
    /\ \A s \in Sessions :
          /\ sessions[s].closeCalls <= 1
          /\ (~sessions[s].initialized /\ lifespan # "stopped"
              /\ s = Len(sessions)) => bash_session = None
    /\ \A r \in Reqs :
          /\ ~req[r].onClosed
          /\ req[r].gate = "absent" => req[r].status = 503

\* a reset failed after a successful startup: the old session is closed, the
\* handle is None and a request that came afterwards was answered 503
C18_Witness ==
    /\ Len(sessions) > 1
    /\ sessions[1].initialized /\ sessions[1].closed
    /\ ~sessions[Len(sessions)].initialized
    /\ bash_session = None
    /\ \E r \in Reqs : req[r].gate = "absent" /\ req[r].status = 503

\* C19: a request that arrives while the handle is None or refers to a
\* session that is not initialized is answered 503 and nothing else happens
\* for it: no handler is called, no command or cell is submitted and no
\* kernel plugin is constructed; every other request got past the gate with
\* an initialized session.  At startup a kernel plugin is constructed only
\* after the shell session was initialized successfully, and a request
\* constructs one only after passing the gate.
C19_GatedOnShellSession ==
    /\ \A r \in Reqs :
          /\ (req[r].pc # "idle") => req[r].gate # "none"
          /\ req[r].gate \in {"absent", "uninitialized"} =>
                /\ req[r].pc = "done"
                /\ req[r].status = 503 /\ req[r].obs = "HTTPException"
                /\ req[r].called = {}
                /\ req[r].plugin = None /\ req[r].sess = None
                /\ req[r].sub = 0
          /\ req[r].status = 503 => req[r].gate \in {"absent", "uninitialized"}
    /\ \A p \in Plugins :
          IF plugins[p].owner = 0
          THEN Len(sessions) > 0 /\ sessions[1].initialized
          ELSE req[plugins[p].owner].gate = "open"

\* startup could not initialize the shell session, so it constructed no kernel
\* plugin; a code cell sent then was answered 503, and after a successful
\* reset a second code cell auto-initialized the kernel plugin
C19_Witness ==
    /\ Len(sessions) > 1 /\ ~sessions[1].initialized
    /\ \E r, q \in Reqs :
          /\ req[r].atype = "IPythonRunCellAction" /\ req[r].status = 503
          /\ req[q].atype = "IPythonRunCellAction" /\ req[q].plugin # None
          /\ plugins[req[q].plugin].owner = q
    /\ \A p \in Plugins : plugins[p].owner # 0

\* C15: in every initialize the probe cell is handed to the kernel only after
\* a line holding a readiness marker was read from the gateway's output, and
\* it is handed over at most once; an initialize that returned has handed it
\* over exactly once, and no probe is under way while the loop still polls.
C15_ProbeAfterReadiness ==
    \A p \in Plugins :
       /\ plugins[p].probes <= 1
       /\ plugins[p].st \in {"probe_kinit", "probe_exec"} => plugins[p].sawMarker
       /\ plugins[p].probes > 0 => plugins[p].sawMarker
       /\ plugins[p].kernel # "absent" => plugins[p].sawMarker
       /\ plugins[p].st \in {"probe_exec", "ready"} => plugins[p].probes = 1
       /\ plugins[p].st \in {"poll_read", "poll_sleep"} =>
             plugins[p].probes = 0 /\ plugins[p].probe = "none"

\* the initialize started by a request has read a marker line before the
\* gateway's output ended, and its probe cell is in kernel.execute
C15_Witness ==
    \E p \in Plugins :
       /\ plugins[p].st = "probe_exec" /\ plugins[p].probes = 1
       /\ plugins[p].sawMarker /\ plugins[p].eof = FALSE
       /\ plugins[p].owner # 0

\* ------------------------------------------------------ the file helpers
\* longest file content and longest text of a cell's output, in characters
MaxLen == 2
\* most images one cell's output carries
MaxImages == 2

Chars == {"x", "y"}
Contents == UNION {[1..n -> Chars] : n \in 0..MaxLen}
\* what a str_replace puts in: the empty string or one character
Replacements == {<<>>} \cup {<<c>> : c \in Chars}

\* What the path a file action names is when the helper looks at it:
\*   "missing"     nothing there, its directory can be written
\*   "missing_ro"  nothing there, its directory cannot be written
\*   "directory"   a directory
\*   "file"        a text file that can be read and written
\*   "readonly"    a text file that can be read but not written
\*   "denied"      a file that can be neither read nor written
\*   "binary"      a writable file whose bytes are not UTF-8
FsStates ==
    {[kind |-> k, content |-> <<>>] :
        k \in {"missing", "missing_ro", "directory", "denied", "binary"}}
    \cup {[kind |-> k, content |-> c] : k \in {"file", "readonly"}, c \in Contents}

\* os.path.exists(filepath), os.path.isdir(filepath)
Exists(f) == f.kind \notin {"missing", "missing_ro"}
IsDir(f) == f.kind = "directory"

\* open(filepath, 'r', encoding='utf-8') and file.read()
OpenRead(f) ==
    CASE f.kind \in {"missing", "missing_ro"} -> "FileNotFoundError"
      [] f.kind = "directory" -> "IsADirectoryError"
      [] f.kind = "denied" -> "PermissionError"
      [] f.kind = "binary" -> "UnicodeDecodeError"
      [] OTHER -> "ok"

\* open(filepath, 'w', encoding='utf-8'): creates the file when it is missing
OpenWrite(f) ==
    CASE f.kind = "directory" -> "IsADirectoryError"
      [] f.kind \in {"missing_ro", "readonly", "denied"} -> "PermissionError"
      [] OTHER -> "ok"

\* old_content.replace(old_str, new_str) for a non-empty old_str
RECURSIVE StrReplace(_, _, _)
StrReplace(c, old, new) ==
    IF Len(c) < Len(old) THEN c
    ELSE IF SubSeq(c, 1, Len(old)) = old
    THEN new \o StrReplace(SubSeq(c, Len(old) + 1, Len(c)), old, new)
    ELSE <<Head(c)>> \o StrReplace(Tail(c), old, new)

\* an observation of a file helper: msg is what its content says, err the
\* exception the content quotes, text the file content it carries
FileObs(class, msg, err, text) ==
    [class |-> class, msg |-> msg, err |-> err, text |-> text]

\* read_file_action, lines 702-728: the observation and the path afterwards
ReadFile(f) ==
    [fs |-> f,
     obs |-> IF ~Exists(f)
             THEN FileObs("FileReadObservation", "File not found", "none", <<>>)
             ELSE IF IsDir(f)
             THEN FileObs("FileReadObservation", "Path is a directory", "none", <<>>)
             ELSE IF OpenRead(f) = "ok"
             THEN FileObs("FileReadObservation", "content", "none", f.content)
             ELSE FileObs("FileReadObservation", "Error reading file", OpenRead(f), <<>>)]

\* a write_file_action that looks before it writes, as read_file_action does
WriteFile_CheckFirst(f, c) ==
    IF ~Exists(f) \/ OpenWrite(f) # "ok"
    THEN [fs |-> f,
          obs |-> FileObs("FileWriteObservation", "Error writing file",
                          IF Exists(f) THEN OpenWrite(f) ELSE "FileNotFoundError", <<>>)]
    ELSE [fs |-> [kind |-> "file", content |-> c],
          obs |-> FileObs("FileWriteObservation", "File written successfully",
                          "none", <<>>)]

\* write_file_action, lines 738-755: os.makedirs of the directory (which
\* exists here), then open(filepath, 'w') and write
WriteFile(f, c) ==
    IF OpenWrite(f) = "ok"
    THEN [fs |-> [kind |-> "file", content |-> c],
          obs |-> FileObs("FileWriteObservation", "File written successfully",
                          "none", <<>>)]
    ELSE [fs |-> f,
          obs |-> FileObs("FileWriteObservation", "Error writing file",
                          OpenWrite(f), <<>>)]

\* edit_file_action, lines 765-797; a is the action: command, old_str, new_str
EditFile(f, a) ==
    LET new == IF a.command = "str_replace" /\ a.old_str # <<>> /\ a.new_str # <<>>
               THEN StrReplace(f.content, a.old_str, a.new_str)
               ELSE f.content IN
    IF ~Exists(f)
    THEN [fs |-> f,
          obs |-> FileObs("FileEditObservation", "File not found", "none", <<>>)]
    ELSE IF OpenRead(f) # "ok"
    THEN [fs |-> f,
          obs |-> FileObs("FileEditObservation", "Error editing file", OpenRead(f), <<>>)]
    ELSE IF OpenWrite(f) # "ok"
    THEN [fs |-> f,
          obs |-> FileObs("FileEditObservation", "Error editing file", OpenWrite(f), <<>>)]
    ELSE [fs |-> [f EXCEPT !.content = new],
          obs |-> FileObs("FileEditObservation", "File edited successfully",
                          "none", <<>>)]

\* the FileEditAction fields edit_file_action reads
EditActions ==
    [command : {"str_replace", "insert"}, old_str : Contents, new_str : Replacements]

\* ------------------------------------------- _run's observation (184-191)
ImageUrls == {"u1", "u2"}
ImageLists == UNION {[1..n -> ImageUrls] : n \in 0..MaxImages}

\* The dict kernel.execute returns: whether it has a 'text' key and an
\* 'images' key, and their values.
CellOutputs ==
    {[hasText |-> FALSE, text |-> <<>>, hasImages |-> h, images |-> <<>>] :
        h \in {FALSE}}
    \cup {[hasText |-> TRUE, text |-> t, hasImages |-> FALSE, images |-> <<>>] :
            t \in Contents}
    \cup {[hasText |-> ht, text |-> IF ht THEN t ELSE <<>>,
           hasImages |-> TRUE, images |-> i] :
            ht \in BOOLEAN, t \in Contents, i \in ImageLists}

\* an observation that carries the first image only
BuildObservation_FirstImage(out) ==
    LET image_urls == IF out.hasImages THEN out.images ELSE <<>> IN
    [content |-> IF out.hasText THEN out.text ELSE <<>>,
     imagesNone |-> (image_urls = <<>>),
     image_urls |-> IF image_urls = <<>> THEN <<>> ELSE <<Head(image_urls)>>]

\* text_content = output.get('text', ''); image_urls = output.get('images', [])
\* IPythonRunCellObservation(content=text_content, ...,
\*                           image_urls=image_urls if image_urls else None)
\* imagesNone: the observation's image_urls is None
BuildObservation(out) ==
    LET image_urls == IF out.hasImages THEN out.images ELSE <<>> IN
    [content |-> IF out.hasText THEN out.text ELSE <<>>,
     imagesNone |-> (image_urls = <<>>),
     image_urls |-> image_urls]

\* --------------------------------- the helpers with their inputs in full
\* A server that is serving: either startup went through (the shell session
\* is initialized and the Jupyter plugin registered), or the shell session
\* could not be initialized and nothing else was started.
ReadyPlugin(e) ==
    [NewPlugin(0, e, "startup", None) EXCEPT
        !.st = "ready", !.marker = TRUE, !.sawMarker = TRUE, !.probes = 1,
        !.probe = "ok", !.kernel = "initialized", !.interp = TRUE]

HelperInit ==
    /\ env = [port |-> MinPort, local |-> FALSE, repo |-> FALSE]
    /\ lifespan = "serving"
    /\ \E ok \in BashInitOutcomes :
         /\ sessions = <<NewSession(ok, "lifespan")>>
         /\ bash_session = LifespanHandle(ok, 1)
         /\ plugins = IF ok THEN <<ReadyPlugin(env)>> ELSE <<>>
         /\ PLUGIN_INSTANCES = [n \in PluginNames |->
                                  IF ok /\ n = "jupyter" THEN 1 ELSE None]
    /\ req = [r \in Reqs |-> IdleReq]
    /\ vs = <<>>
    /\ call = NoCall

\* The response of execute_action to a file action (lines 615-625, 667-680):
\* kind is the action's type, f the path as the helper finds it, arg what the
\* action carries, res what the helper returns and leaves behind.
FileResponse(kind, f, arg, res) ==
    IF HandleState # "open"
    THEN [op |-> kind, before |-> f, arg |-> arg, status |-> 503,
          obs |-> FileObs("HTTPException", "Bash session not available",
                          "none", <<>>),
          after |-> f]
    ELSE [op |-> kind, before |-> f, arg |-> arg, status |-> 200,
          obs |-> res.obs, after |-> res.fs]

\* Each behaviour follows one request through its helper.
ExecuteFileRead ==
    /\ lifespan = "serving" /\ call = NoCall
    /\ \E f \in FsStates :
         call' = FileResponse("FileReadAction", f, <<>>, ReadFile(f))
    /\ UNCHANGED <<env, lifespan, bash_session, sessions, PLUGIN_INSTANCES,
                   plugins, req, vs>>

ExecuteFileWrite ==
    /\ lifespan = "serving" /\ call = NoCall
    /\ \E f \in FsStates, c \in Contents :
         call' = FileResponse("FileWriteAction", f, c, WriteFile(f, c))
    /\ UNCHANGED <<env, lifespan, bash_session, sessions, PLUGIN_INSTANCES,
                   plugins, req, vs>>

ExecuteFileEdit ==
    /\ lifespan = "serving" /\ call = NoCall
    /\ \E f \in FsStates, a \in EditActions :
         call' = FileResponse("FileEditAction", f, a, EditFile(f, a))
    /\ UNCHANGED <<env, lifespan, bash_session, sessions, PLUGIN_INSTANCES,
                   plugins, req, vs>>

\* _run from the return of kernel.execute to its own return (lines 181-191),
\* for a cell run on the registered plugin
RunObservation ==
    /\ lifespan = "serving" /\ call = NoCall
    /\ HandleState = "open"
    /\ PLUGIN_INSTANCES["jupyter"] # None
    /\ \E out \in CellOutputs :
         call' = [op |-> "_run", out |-> out, obs |-> BuildObservation(out)]
    /\ UNCHANGED <<env, lifespan, bash_session, sessions, PLUGIN_INSTANCES,
                   plugins, req, vs>>

HelperNext ==
    \/ ExecuteFileRead
    \/ ExecuteFileWrite
    \/ ExecuteFileEdit
    \/ RunObservation

HelperSpec == HelperInit /\ [][HelperNext]_vars

\* ------------------------------------------------- claims on the helpers
FileKindsOfAction == {"FileReadAction", "FileWriteAction", "FileEditAction"}

\* the call is a file action that got past the session gate
FileCall == call.op \in FileKindsOfAction /\ HandleState = "open"

\* what a helper's observation must say of a path it could not serve
Describes(op, f, obs) ==
    CASE f.kind \in {"missing", "missing_ro"} /\ op # "FileWriteAction" ->
            obs.msg = "File not found"
      [] f.kind = "missing_ro" /\ op = "FileWriteAction" ->
            obs.msg = "Error writing file" /\ obs.err = "PermissionError"
      [] f.kind = "directory" ->
            \/ obs.msg = "Path is a directory"
            \/ obs.msg \in {"Error writing file", "Error editing file"}
               /\ obs.err = "IsADirectoryError"
      [] f.kind = "denied" ->
            /\ obs.msg \in {"Error reading file", "Error writing file",
                            "Error editing file"}
            /\ obs.err = "PermissionError"
      [] f.kind = "binary" /\ op # "FileWriteAction" ->
            /\ obs.msg \in {"Error reading file", "Error editing file"}
            /\ obs.err = "UnicodeDecodeError"
      [] f.kind = "readonly" /\ op # "FileReadAction" ->
            /\ obs.msg \in {"Error writing file", "Error editing file"}
            /\ obs.err = "PermissionError"
      [] OTHER -> obs.err = "none"

C14_ObservationCarriesOutput ==
    call.op = "_run" =>
       LET out == call.out
           obs == call.obs IN
       /\ out.hasText => obs.content = out.text
       /\ ~out.hasText => obs.content = <<>>
       /\ (out.hasImages /\ Len(out.images) > 0) =>
             /\ ~obs.imagesNone
             /\ Len(obs.image_urls) = Len(out.images)
             /\ \A i \in 1..Len(out.images) : obs.image_urls[i] = out.images[i]
       /\ (~out.hasImages \/ Len(out.images) = 0) => obs.imagesNone

\* an output with text and two different images gave an observation with
\* that text and the two images in the order they came
C14_Witness ==
    /\ call.op = "_run"
    /\ Len(call.out.text) > 0 /\ call.obs.content = call.out.text
    /\ Len(call.out.images) > 1
    /\ call.out.images[1] # call.out.images[2]
    /\ call.obs.image_urls = call.out.images

\* ------------------------------------------------- the plugin endpoints
\* VSCodePlugin objects constructed during one run
MaxVs == 1

\* the keys of ALL_PLUGINS are PluginNames; "unknown" is any other name
RequestedNames == PluginNames \cup {"unknown"}

\* `await plugin_instance.initialize(username)` of a VSCodePlugin raises, or
\* returns and leaves vscode_connection_token and vscode_port set or not
VsInitOutcomes ==
    {[ok |-> FALSE, token |-> FALSE, port |-> FALSE]}
    \cup {[ok |-> TRUE, token |-> t, port |-> p] : t \in BOOLEAN, p \in BOOLEAN}

NewVsPlugin == [st |-> "initializing", token |-> FALSE, port |-> FALSE]

\* an initialize_plugin that stores the instance before awaiting initialize
RegisterAfterInit_Before(reg, name, v, ok) == [reg EXCEPT ![name] = v]

\* initialize_plugin, lines 588-593: `PLUGIN_INSTANCES[plugin_name] =
\* plugin_instance` is reached only when initialize returned
RegisterAfterInit(reg, name, v, ok) ==
    IF ok THEN [reg EXCEPT ![name] = v] ELSE reg

\* An HTTPException raised inside a handler's own `try` block is caught by
\* that block's `except Exception` (HTTPException is an Exception), which
\* answers 500: raised is the status the handler raised, the result the
\* status the client gets.
CaughtInTry(raised) == 500

\* initialize_plugin, lines 572-586 and 588-590: the checks before the try
\* block, whose HTTPExceptions reach the client, then the construction of the
\* plugin and initialize up to its await
InitializePlugin(name) ==
    /\ lifespan = "serving"
    /\ IF name \notin PluginNames
       THEN /\ call' = [op |-> "initialize_plugin", name |-> name, status |-> 404,
                        raised |-> 404, regBefore |-> PLUGIN_INSTANCES,
                        regAfter |-> PLUGIN_INSTANCES, instance |-> None]
            /\ UNCHANGED vs
       ELSE IF name \in {"jupyter", "agent_skills"}
       THEN /\ call' = [op |-> "initialize_plugin", name |-> name, status |-> 400,
                        raised |-> 400, regBefore |-> PLUGIN_INSTANCES,
                        regAfter |-> PLUGIN_INSTANCES, instance |-> None]
            /\ UNCHANGED vs
       ELSE /\ Len(vs) < MaxVs
            /\ vs' = Append(vs, NewVsPlugin)
            /\ UNCHANGED call
    /\ UNCHANGED <<env, lifespan, bash_session, sessions, PLUGIN_INSTANCES,
                   plugins, req>>

\* initialize_plugin, lines 591-604: initialize returned and the instance is
\* stored, or it raised and the except clause answers 500
InitializePluginEnd(v) ==
    /\ v <= Len(vs)
    /\ vs[v].st = "initializing"
    /\ \E o \in VsInitOutcomes :
         LET reg == RegisterAfterInit(PLUGIN_INSTANCES, "vscode", v, o.ok) IN
         /\ vs' = [vs EXCEPT ![v] = [st |-> IF o.ok THEN "ready" ELSE "failed",
                                     token |-> o.token, port |-> o.port]]
         /\ PLUGIN_INSTANCES' = reg
         /\ call' = [op |-> "initialize_plugin", name |-> "vscode",
                     status |-> IF o.ok THEN 200 ELSE 500,
                     raised |-> 0, regBefore |-> PLUGIN_INSTANCES,
                     regAfter |-> reg, instance |-> v]
    /\ UNCHANGED <<env, lifespan, bash_session, sessions, plugins, req>>

\* get_vscode_connection_token, lines 456-486
GetVscodeConnectionToken ==
    /\ lifespan = "serving"
    /\ LET plugin == PLUGIN_INSTANCES["vscode"] IN
       call' = IF plugin = None
               THEN [op |-> "vscode_connection_token", registered |-> FALSE,
                     token |-> FALSE, port |-> FALSE, raised |-> 400, status |-> 400]
               ELSE IF ~vs[plugin].token
               THEN [op |-> "vscode_connection_token", registered |-> TRUE,
                     token |-> FALSE, port |-> vs[plugin].port,
                     raised |-> 400, status |-> CaughtInTry(400)]
               ELSE [op |-> "vscode_connection_token", registered |-> TRUE,
                     token |-> TRUE, port |-> vs[plugin].port,
                     raised |-> 0, status |-> 200]
    /\ UNCHANGED <<env, lifespan, bash_session, sessions, PLUGIN_INSTANCES,
                   plugins, req, vs>>

\* get_vscode_url, lines 488-523
GetVscodeUrl ==
    /\ lifespan = "serving"
    /\ LET plugin == PLUGIN_INSTANCES["vscode"] IN
       call' = IF plugin = None
               THEN [op |-> "vscode_url", registered |-> FALSE,
                     token |-> FALSE, port |-> FALSE, raised |-> 400, status |-> 400]
               ELSE IF ~vs[plugin].token \/ ~vs[plugin].port
               THEN [op |-> "vscode_url", registered |-> TRUE,
                     token |-> vs[plugin].token, port |-> vs[plugin].port,
                     raised |-> 400, status |-> CaughtInTry(400)]
               ELSE [op |-> "vscode_url", registered |-> TRUE,
                     token |-> TRUE, port |-> TRUE, raised |-> 0, status |-> 200]
    /\ UNCHANGED <<env, lifespan, bash_session, sessions, PLUGIN_INSTANCES,
                   plugins, req, vs>>

\* generate_file_viewer_html(path) returns the page, raises ValueError (a
\* file type it does not show) or raises something else
ViewerOutcomes == {"html", "ValueError", "Exception"}

\* view_file, lines 434-453: isabs tells whether the path is absolute, f is
\* the path as found, o how generate_file_viewer_html would end
ViewFileResponse(isabs, f, o) ==
    LET raised == IF ~isabs THEN 400
                  ELSE IF ~Exists(f) THEN 404
                  ELSE IF IsDir(f) THEN 400
                  ELSE 0 IN
    [op |-> "view_file", isabs |-> isabs, kind |-> f.kind, raised |-> raised,
     status |-> IF raised # 0 THEN CaughtInTry(raised)
                ELSE IF o = "html" THEN 200
                ELSE IF o = "ValueError" THEN 400
                ELSE 500]

ViewFile ==
    /\ lifespan = "serving"
    /\ \E isabs \in BOOLEAN, f \in FsStates, o \in ViewerOutcomes :
         call' = ViewFileResponse(isabs, f, o)
    /\ UNCHANGED <<env, lifespan, bash_session, sessions, PLUGIN_INSTANCES,
                   plugins, req, vs>>

\* execute_action for an action of a type it has no branch for, lines
\* 615-625 and 682-692: the HTTPException(400) is raised inside the try
\* block and answered as a JSONResponse by its except clause
ExecuteUnsupported ==
    /\ lifespan = "serving"
    /\ call' = IF HandleState # "open"
               THEN [op |-> "execute_action", atype |-> "other",
                     raised |-> 503, status |-> 503]
               ELSE [op |-> "execute_action", atype |-> "other",
                     raised |-> 400, status |-> CaughtInTry(400)]
    /\ UNCHANGED <<env, lifespan, bash_session, sessions, PLUGIN_INSTANCES,
                   plugins, req, vs>>

ApiNext ==
    \/ LifespanBashInit
    \/ LifespanJupyterInit
    \/ \E p \in 1..MaxPlugins : PollRead(p)
    \/ \E p \in 1..MaxPlugins : PollSleep(p)
    \/ \E p \in 1..MaxPlugins : ProbeKernelInit(p)
    \/ \E p \in 1..MaxPlugins : ProbeExec(p)
    \/ \E name \in RequestedNames : InitializePlugin(name)
    \/ \E v \in 1..MaxVs : InitializePluginEnd(v)
    \/ GetVscodeConnectionToken
    \/ GetVscodeUrl
    \/ ViewFile
    \/ ExecuteUnsupported

ApiSpec == Init /\ [][ApiNext]_vars

\* ----------------------------------------- claims on the plugin endpoints
\* C16: initialize_plugin answers 400 for 'jupyter' and 'agent_skills' and
\* 404 for a name that is no plugin, each time leaving PLUGIN_INSTANCES as
\* it was; for any other plugin the instance is stored only when its
\* initialize returned (answer 200), and a failed initialize (answer 500)
\* leaves PLUGIN_INSTANCES as it was; so PLUGIN_INSTANCES only ever holds
\* instances whose initialize returned.
C16_RegistryOnlyInitialized ==
    /\ call.op = "initialize_plugin" =>
          /\ call.name \in {"jupyter", "agent_skills"} =>
                call.status = 400 /\ call.regAfter = call.regBefore
          /\ call.name \notin PluginNames =>
                call.status = 404 /\ call.regAfter = call.regBefore
          /\ call.name = "vscode" =>
                /\ call.status \in {200, 500}
                /\ call.status = 500 =>
                      /\ call.regAfter = call.regBefore
                      /\ vs[call.instance].st = "failed"
                /\ call.status = 200 =>
                      /\ call.regAfter =
                            [call.regBefore EXCEPT !["vscode"] = call.instance]
                      /\ vs[call.instance].st = "ready"
    /\ PLUGIN_INSTANCES["agent_skills"] = None
    /\ PLUGIN_INSTANCES["jupyter"] # None =>
          /\ PLUGIN_INSTANCES["jupyter"] \in Plugins
          /\ plugins[PLUGIN_INSTANCES["jupyter"]].st = "ready"
    /\ PLUGIN_INSTANCES["vscode"] # None =>
          /\ PLUGIN_INSTANCES["vscode"] \in 1..Len(vs)
          /\ vs[PLUGIN_INSTANCES["vscode"]].st = "ready"

\* startup registered the Jupyter plugin, and an initialize_plugin for
\* 'vscode' failed and was answered 500 with the registry as it was
C16_Witness ==
    /\ call.op = "initialize_plugin" /\ call.name = "vscode"
    /\ call.status = 500
    /\ PLUGIN_INSTANCES["jupyter"] # None
    /\ PLUGIN_INSTANCES["vscode"] = None
    /\ Len(vs) > 0

\* C17: an HTTP error a handler raises on purpose reaches the client with
\* the status it was raised with: 400 for an unsupported action type; in
\* view_file 400 for a relative path, 404 for a missing file and 400 for a
\* directory; 400 from the VSCode token and URL endpoints when the token or
\* the port is missing.
C17_StatusPreserved ==
    call.op \in {"execute_action", "view_file", "vscode_connection_token",
                 "vscode_url"} =>
       (call.raised # 0 => call.status = call.raised)
====
